---- MODULE Spec2Model ----
(***************************************************************************)
(* Model of optimade/utils.py: get_providers, _unpack_providers,           *)
(* mongo_id_for_database and get_child_database_links, and of the provider *)
(* fixture loading of optimade/server/data/__init__.py.                    *)
(*                                                                         *)
(* Python strings are TLA+ strings, Python dicts are functions whose       *)
(* domain is a set of strings, Python lists are sequences.  Every call is  *)
(* followed from its entry to the value it returns or the exception it     *)
(* raises; HTTP answers and file contents are inputs chosen by the         *)
(* environment at the moment the code asks for them.                       *)
(***************************************************************************)
EXTENDS Integers, Sequences, FiniteSets, TLC

VARIABLES pc, add_mongo_id, source, fileContent, remote_providers, providers,
          fetched, bundled, bundledRead, result,
          given, provider, endpoint, _id, base_url, requested, outcomes

gpVars == <<add_mongo_id, source, fileContent, remote_providers, providers,
            fetched, bundled, bundledRead, result>>
gcVars == <<given, provider, endpoint, _id, base_url, requested, outcomes>>
vars == <<pc, gpVars, gcVars>>

(***************************************************************************)
(* Bounds of the model.                                                    *)
(***************************************************************************)
\* longest `data` list of a LinksResponse
MaxData == 2

(***************************************************************************)
(* Python values.                                                          *)
(***************************************************************************)
\* Python's None, where a string is expected
None == "<None>"

\* str(x): the text of None is "None", a string is itself
Str(x) == IF x = None THEN "None" ELSE x

\* str.endswith
EndsWith(s, suffix) ==
    /\ Len(s) >= Len(suffix)
    /\ SubSeq(s, Len(s) - Len(suffix) + 1, Len(s)) = suffix

\* the empty dict
EmptyDict == [k \in {} |-> None]

\* dict.pop(key, default) leaves the dict without the key ...
Pop(d, key) == [k \in (DOMAIN d) \ {key} |-> d[k]]

\* ... and returns the value, or the default
PopValue(d, key, default) == IF key \in DOMAIN d THEN d[key] ELSE default

\* dict.update(other): the keys of other win
Update(d, other) ==
    [k \in (DOMAIN d) \cup (DOMAIN other) |->
        IF k \in DOMAIN other THEN other[k] ELSE d[k]]

\* dict.get(key, default)
Get(d, key, default) == IF key \in DOMAIN d THEN d[key] ELSE default

PROVIDER_LIST_URLS ==
    << "https://providers.optimade.org/v1/links",
       "https://raw.githubusercontent.com/Materials-Consortia/providers/master/src/links/v1/providers.json" >>

(***************************************************************************)
(* mongo_id_for_database                                                   *)
(***************************************************************************)
\* two hex digits of the UTF-8 byte of a character
HexByte(c) ==
    CASE c = "0" -> "30" [] c = "a" -> "61" [] c = "b" -> "62"
      [] c = "c" -> "63" [] c = "d" -> "64" [] c = "e" -> "65"
      [] c = "i" -> "69" [] c = "k" -> "6b" [] c = "l" -> "6c"
      [] c = "m" -> "6d" [] c = "n" -> "6e" [] c = "p" -> "70"
      [] c = "s" -> "73" [] c = "x" -> "78"

\* str(ObjectId(bytes)): the hex text of the bytes
RECURSIVE HexText(_)
HexText(s) ==
    IF Len(s) = 0 THEN ""
    ELSE HexByte(SubSeq(s, 1, 1)) \o HexText(SubSeq(s, 2, Len(s)))

RECURSIVE Zeros(_)
Zeros(n) == IF n <= 0 THEN "" ELSE "0" \o Zeros(n - 1)

mongo_id_for_database(database_id, database_type) ==
    LET oid  == database_id \o database_type
        oid12 == IF Len(oid) > 12 THEN SubSeq(oid, 1, 12)
                 ELSE IF Len(oid) < 12 THEN oid \o Zeros(12 - Len(oid))
                 ELSE oid
    IN  HexText(oid12)

(***************************************************************************)
(* LinksResponse.data: each entry is a LinksResource or a raw dict.        *)
(***************************************************************************)
Resource(fields) == [isResource |-> TRUE, fields |-> fields]
RawDict(fields)  == [isResource |-> FALSE, fields |-> fields]

Entries ==
    { Resource([id |-> "a", type |-> "links",
                attributes |-> [link_type |-> "child", base_url |-> "http://a"]]),
      Resource([id |-> "exmpl", type |-> "links",
                attributes |-> [link_type |-> "child", base_url |-> None]]),
      RawDict([id |-> "b", type |-> "links",
               attributes |-> [link_type |-> "child", base_url |-> "http://b"]]),
      RawDict([id |-> "c", type |-> "links",
               attributes |-> [link_type |-> "root", base_url |-> "http://c",
                               id |-> "exmpl"]]),
      RawDict([id |-> "d", type |-> "links",
               attributes |-> [link_type |-> "child", base_url |-> None,
                               attributes |-> [name |-> "d"]]]),
      RawDict([id |-> "e"]) }

\* the entries a local providers file is made of
FileEntries ==
    { Resource([id |-> "a", type |-> "links",
                attributes |-> [link_type |-> "child", base_url |-> "http://a"]]),
      RawDict([id |-> "b", type |-> "links",
               attributes |-> [link_type |-> "child", base_url |-> "http://b"]]) }

RECURSIVE SeqsUpTo(_, _)
SeqsUpTo(S, n) ==
    IF n = 0 THEN { <<>> }
    ELSE LET shorter == SeqsUpTo(S, n - 1)
         IN  shorter \cup { Append(s, e) : s \in shorter, e \in S }

\* the `data` lists the environment can answer with
Payloads == SeqsUpTo(Entries, MaxData)

(***************************************************************************)
(* _unpack_providers                                                       *)
(***************************************************************************)
Returned(value) == [status |-> "return", value |-> value, names |-> <<>>]
Raised(exc)     == [status |-> exc, value |-> <<>>, names |-> <<>>]
NoResult        == [status |-> "none", value |-> <<>>, names |-> <<>>]

\* json.loads(provider.json()): the resource as a plain mapping of its fields
ToJson(entry) == entry.fields

\* one turn of the loop body: "skip", "KeyError" or the record to append
UnpackOne(entry, addId) ==
    LET p0 == IF entry.isResource THEN ToJson(entry) ELSE entry.fields
    IN  IF "id" \notin DOMAIN p0 THEN [kind |-> "KeyError", rec |-> EmptyDict]
        ELSE IF p0["id"] = "exmpl" THEN [kind |-> "skip", rec |-> EmptyDict]
        ELSE LET p1 == Update(Pop(p0, "attributes"),
                              PopValue(p0, "attributes", EmptyDict))
             IN  IF ~addId THEN [kind |-> "append", rec |-> p1]
                 ELSE IF "type" \notin DOMAIN p1
                      THEN [kind |-> "KeyError", rec |-> EmptyDict]
                 ELSE [kind |-> "append",
                       rec |-> Update(p1,
                           [k \in {"_id"} |->
                               [o \in {"$oid"} |->
                                   mongo_id_for_database(p1["id"], p1["type"])]])]

RECURSIVE UnpackFrom(_, _, _, _)
UnpackFrom(data, i, addId, providers_list) ==
    IF i > Len(data) THEN Returned(providers_list)
    ELSE LET one == UnpackOne(data[i], addId)
         IN  IF one.kind = "KeyError" THEN Raised("KeyError")
             ELSE IF one.kind = "skip"
                  THEN UnpackFrom(data, i + 1, addId, providers_list)
             ELSE UnpackFrom(data, i + 1, addId, Append(providers_list, one.rec))

_unpack_providers(data, addId) == UnpackFrom(data, 1, addId, <<>>)

(***************************************************************************)
(* get_providers                                                           *)
(***************************************************************************)
NoArg == [kind |-> "None", value |-> None]

\* the `source` arguments tried: none, a file path, and URLs with and without
\* a links-path suffix
Sources ==
    { NoArg,
      [kind |-> "Path", value |-> "providers.json"],
      [kind |-> "url", value |-> "http://p"],
      [kind |-> "url", value |-> "http://p/links"],
      [kind |-> "url", value |-> "http://p/v1/links"] }

Failure(exc) == [outcome |-> exc, data |-> <<>>]
Valid(data)  == [outcome |-> "valid", data |-> data]
Unread       == [outcome |-> "unread", data |-> <<>>]

\* what open() + json.load() + LinksResponse(**...) can come to for a file
FileContents ==
    { Failure("JSONDecodeError"), Failure("ValidationError") }
        \cup { Valid(d) : d \in SeqsUpTo(FileEntries, MaxData) }

\* what requests.get(url).json() + LinksResponse(**...) can come to for a URL
Responses ==
    { Failure("ConnectionError"), Failure("ConnectTimeout"),
      Failure("JSONDecodeError"), Failure("ValidationError"),
      Failure("ReadTimeout") }
        \cup { Valid(d) : d \in Payloads }

\* the local variable `providers`: unbound until an assignment has run
Unbound     == [bound |-> FALSE, data |-> <<>>]
Bound(data) == [bound |-> TRUE, data |-> data]

\* the bundled providers.json of optimade.server.data: missing, or loaded
BundledLists ==
    { [present |-> FALSE, data |-> <<>>],
      [present |-> TRUE,
       data |-> << Resource([id |-> "a", type |-> "links",
                     attributes |-> [link_type |-> "child",
                                     base_url |-> "http://a"]]) >>] }

\* an except clause that also names the schema validation error
CaughtWithValidation ==
    { "ConnectionError", "ConnectTimeout", "JSONDecodeError", "ValidationError" }

\* the exception classes of the except clause of the candidate loop
Caught == { "ConnectionError", "ConnectTimeout", "JSONDecodeError" }

\* the candidate URLs built for a URL source
Candidates(url) ==
    IF ~EndsWith(url, "/v1/links") \/ ~EndsWith(url, "/links")
    THEN << url, url \o "/v1/links", url \o "/links" >>
    ELSE << url >>

\* a loop whose else clause does not break
AfterFetchNoBreak(outcome, i, n) ==
    IF outcome \in { "ConnectionError", "ConnectTimeout", "JSONDecodeError",
                     "valid" }
    THEN (IF i < n THEN "loop" ELSE "check")
    ELSE "raise"

\* where the loop goes after candidate i of n came to `outcome`
AfterFetch(outcome, i, n) ==
    IF outcome \in Caught THEN (IF i < n THEN "loop" ELSE "check")
    ELSE IF outcome = "valid" THEN "check"
    ELSE "raise"

UnableToRetrieve == "RuntimeError: Unable to retrieve providers list"

\* bool(providers) for a bound LinksResponse object: a model instance is truthy
Truthy(p) == TRUE

(***************************************************************************)
(* get_child_database_links                                                *)
(***************************************************************************)
\* most calls the caller makes with one provider record
MaxCalls == 2

\* the provider records a caller passes: LinksResource objects and raw
\* mappings, with a base URL, with a null one and with none
Providers ==
    { Resource([id |-> "p", type |-> "links",
                attributes |-> [link_type |-> "external", base_url |-> "http://p"]]),
      Resource([id |-> "p", type |-> "links",
                attributes |-> [link_type |-> "external", base_url |-> None]]),
      RawDict([id |-> "p", type |-> "links", base_url |-> "http://p"]),
      RawDict([id |-> "p", type |-> "links", base_url |-> None]),
      RawDict([id |-> "p", type |-> "links"]),
      RawDict([type |-> "links", base_url |-> "http://p"]) }

NoAnswer == [status_code |-> 0, outcome |-> "unread", data |-> <<>>]

\* what the provider's /v1/links endpoint answers: no connection, a status
\* other than 200, or 200 with a body that is not JSON, not a LinksResponse,
\* or a LinksResponse
EndpointAnswers ==
    { [status_code |-> 0, outcome |-> "ConnectionError", data |-> <<>>],
      [status_code |-> 500, outcome |-> "valid", data |-> <<>>],
      [status_code |-> 200, outcome |-> "JSONDecodeError", data |-> <<>>],
      [status_code |-> 200, outcome |-> "ValidationError", data |-> <<>>] }
        \cup { [status_code |-> 200, outcome |-> "valid", data |-> d] :
                 d \in Payloads }

NoBaseUrl       == "RuntimeError: provides no base URL"
InvalidResponse == "RuntimeError: Invalid response"

LinkType_CHILD == "child"

\* requests.get refuses a URL without an http(s) scheme before sending
HasScheme(url) ==
    \/ (Len(url) >= 7 /\ SubSeq(url, 1, 7) = "http://")
    \/ (Len(url) >= 8 /\ SubSeq(url, 1, 8) = "https://")

\* the first comprehension: attribute access, for LinksResource entries
RECURSIVE ResourceLinks(_, _, _)
ResourceLinks(data, i, acc) ==
    IF i > Len(data) THEN Returned(acc)
    ELSE LET link == data[i]
         IN  IF ~link.isResource THEN Raised("AttributeError")
             ELSE IF /\ link.fields.attributes.link_type = LinkType_CHILD
                     /\ link.fields.attributes.base_url # None
                  THEN ResourceLinks(data, i + 1, Append(acc, link))
             ELSE ResourceLinks(data, i + 1, acc)

\* the second comprehension: dict.get, for raw dict entries
RECURSIVE DictLinks(_, _, _)
DictLinks(data, i, acc) ==
    IF i > Len(data) THEN Returned(acc)
    ELSE LET link == data[i]
         IN  IF link.isResource THEN Raised("AttributeError")
             ELSE IF /\ Get(Get(link.fields, "attributes", EmptyDict),
                            "link_type", None) = "child"
                     /\ Get(Get(link.fields, "attributes", EmptyDict),
                            "base_url", None) # None
                  THEN DictLinks(data, i + 1, Append(acc, link))
             ELSE DictLinks(data, i + 1, acc)

\* try: first comprehension; except AttributeError: second comprehension
ChildLinks(data) ==
    LET first == ResourceLinks(data, 1, <<>>)
    IN  IF first.status = "AttributeError" THEN DictLinks(data, 1, <<>>)
        ELSE first

\* isinstance(provider, LinksResource) branch and its else: the value of
\* _id and base_url, the provider as the pops leave it, and a KeyError
Extract(p) ==
    IF p.isResource
    THEN [exc |-> "none", id |-> p.fields.id,
          base_url |-> Str(p.fields.attributes.base_url), provider |-> p]
    ELSE IF "id" \notin DOMAIN p.fields
    THEN [exc |-> "KeyError", id |-> None, base_url |-> None, provider |-> p]
    ELSE LET p1 == RawDict(Pop(p.fields, "id"))
         IN  IF "base_url" \notin DOMAIN p1.fields
             THEN [exc |-> "KeyError", id |-> p.fields.id, base_url |-> None,
                   provider |-> p1]
             ELSE [exc |-> "none", id |-> p.fields.id,
                   base_url |-> p1.fields.base_url,
                   provider |-> RawDict(Pop(p1.fields, "base_url"))]

Init ==
    /\ pc = "idle"
    /\ add_mongo_id = FALSE
    /\ source = NoArg
    /\ fileContent = Unread
    /\ remote_providers = <<>>
    /\ providers = Unbound
    /\ fetched = <<>>
    /\ bundled \in BundledLists
    /\ bundledRead = FALSE
    /\ result = NoResult
    /\ given = RawDict(EmptyDict)
    /\ provider = RawDict(EmptyDict)
    /\ endpoint = NoAnswer
    /\ _id = None
    /\ base_url = None
    /\ requested = <<>>
    /\ outcomes = <<>>

\* the call: arguments bound, remote_providers = list(PROVIDER_LIST_URLS)
GetProvidersCall ==
    /\ pc = "idle"
    /\ \E a \in BOOLEAN, s \in Sources :
          /\ add_mongo_id' = a
          /\ source' = s
    /\ remote_providers' = PROVIDER_LIST_URLS
    /\ pc' = "source"
    /\ UNCHANGED <<fileContent, providers, fetched, bundled, bundledRead,
                   result, gcVars>>

\* `if source is not None:` with the file branch and the URL branch
GetProvidersSource ==
    /\ pc = "source"
    /\ IF source.kind = "Path"
       THEN \E f \in FileContents :
               /\ fileContent' = f
               /\ IF f.outcome = "valid"
                  THEN /\ providers' = Bound(f.data)
                       /\ pc' = "loop"
                       /\ result' = result
                  ELSE /\ providers' = providers
                       /\ pc' = "done"
                       /\ result' = Raised(f.outcome)
               /\ UNCHANGED remote_providers
       ELSE /\ remote_providers' =
                  IF source.kind = "url" THEN Candidates(source.value)
                  ELSE remote_providers
            /\ pc' = "loop"
            /\ UNCHANGED <<fileContent, providers, result>>
    /\ UNCHANGED <<add_mongo_id, source, fetched, bundled, bundledRead, gcVars>>

\* one turn of `for provider_list_url in remote_providers:`
GetProvidersFetch ==
    /\ pc = "loop"
    /\ LET i   == Len(fetched) + 1
           url == remote_providers[i]
       IN  \E r \in Responses :
              LET next == AfterFetch(r.outcome, i, Len(remote_providers))
              IN  /\ fetched' = Append(fetched,
                        [url |-> url, outcome |-> r.outcome, data |-> r.data])
                  /\ providers' = IF r.outcome = "valid" THEN Bound(r.data)
                                  ELSE providers
                  /\ IF next = "raise"
                     THEN /\ pc' = "done"
                          /\ result' = Raised(r.outcome)
                     ELSE /\ pc' = next
                          /\ result' = result
    /\ UNCHANGED <<add_mongo_id, source, fileContent, remote_providers,
                   bundled, bundledRead, gcVars>>

\* `if not providers:` ... `return _unpack_providers(...)`
GetProvidersFinish ==
    /\ pc = "check"
    /\ pc' = "done"
    /\ IF ~providers.bound
       THEN /\ result' = Raised("UnboundLocalError")
            /\ UNCHANGED <<providers, bundledRead>>
       ELSE IF ~Truthy(providers)
       THEN IF source.kind # "None"
            THEN /\ result' = [Raised(UnableToRetrieve) EXCEPT
                                  !.names = << source.value >>]
                 /\ UNCHANGED <<providers, bundledRead>>
            ELSE /\ bundledRead' = TRUE
                 /\ IF bundled.present
                    THEN /\ providers' = Bound(bundled.data)
                         /\ result' = _unpack_providers(bundled.data, add_mongo_id)
                    ELSE /\ providers' = providers
                         /\ result' = Raised(UnableToRetrieve)
       ELSE /\ result' = _unpack_providers(providers.data, add_mongo_id)
            /\ UNCHANGED <<providers, bundledRead>>
    /\ UNCHANGED <<add_mongo_id, source, fileContent, remote_providers,
                   fetched, bundled, gcVars>>

Next ==
    \/ GetProvidersCall
    \/ GetProvidersSource
    \/ GetProvidersFetch
    \/ GetProvidersFinish

Spec == Init /\ [][Next]_vars

(***************************************************************************)
(* A caller holding one provider record and calling                        *)
(* get_child_database_links with it, against an endpoint that keeps        *)
(* answering the same.                                                     *)
(***************************************************************************)
InitChild ==
    /\ pc = "idle"
    /\ add_mongo_id = FALSE
    /\ source = NoArg
    /\ fileContent = Unread
    /\ remote_providers = <<>>
    /\ providers = Unbound
    /\ fetched = <<>>
    /\ bundled = [present |-> FALSE, data |-> <<>>]
    /\ bundledRead = FALSE
    /\ result = NoResult
    /\ given \in Providers
    /\ provider = given
    /\ endpoint \in EndpointAnswers
    /\ _id = None
    /\ base_url = None
    /\ requested = <<>>
    /\ outcomes = <<>>

\* the call, with the record the caller holds
ChildCall ==
    /\ pc = "idle"
    /\ Len(outcomes) < MaxCalls
    /\ pc' = "extract"
    /\ UNCHANGED <<gpVars, gcVars>>

\* a call has ended: the caller has its outcome
ChildEnd(r) ==
    /\ pc' = "idle"
    /\ outcomes' = Append(outcomes, r)

\* the isinstance branches and `if base_url is None: raise`
ChildExtract ==
    /\ pc = "extract"
    /\ LET e == Extract(provider)
       IN  /\ provider' = e.provider
           /\ _id' = e.id
           /\ base_url' = e.base_url
           /\ IF e.exc # "none" THEN ChildEnd(Raised(e.exc))
              ELSE IF e.base_url = None THEN ChildEnd(Raised(NoBaseUrl))
              ELSE /\ pc' = "request"
                   /\ UNCHANGED outcomes
    /\ UNCHANGED <<gpVars, given, endpoint, requested>>

\* requests.get(links_endp), the status check, the validation and the filter
ChildRequest ==
    /\ pc = "request"
    /\ LET links_endp == base_url \o "/v1/links"
       IN  /\ requested' = Append(requested, links_endp)
           /\ IF ~HasScheme(links_endp) THEN ChildEnd(Raised("MissingSchema"))
              ELSE IF endpoint.status_code = 0
                   THEN ChildEnd(Raised(endpoint.outcome))
              ELSE IF endpoint.status_code # 200
                   THEN ChildEnd(Raised(InvalidResponse))
              ELSE IF endpoint.outcome # "valid"
                   THEN ChildEnd(Raised(endpoint.outcome))
              ELSE ChildEnd(ChildLinks(endpoint.data))
    /\ UNCHANGED <<gpVars, given, provider, endpoint, _id, base_url>>

NextChild ==
    \/ ChildCall
    \/ ChildExtract
    \/ ChildRequest

SpecChild == InitChild /\ [][NextChild]_vars

(***************************************************************************)
(* Properties of get_providers and _unpack_providers, checked under Spec.  *)
(***************************************************************************)
\* the failures the candidate loop is said to skip
SkippedFailures == { "ConnectionError", "ConnectTimeout", "JSONDecodeError" }

LastFetched == fetched[Len(fetched)]

AllCandidatesFailed ==
    /\ pc = "done"
    /\ Len(fetched) = Len(remote_providers)
    /\ \A i \in DOMAIN fetched : fetched[i].outcome \in SkippedFailures

\* C1: the candidates are fetched in list order; a candidate that fails
\* with a connection error, a connect timeout or a JSON decode error is
\* skipped and the next one is tried; nothing is fetched after a candidate
\* that fetched and validated, and the call then returns the normalized
\* data of that candidate.
C1_FirstSuccessWins ==
    /\ Len(fetched) <= Len(remote_providers)
    /\ \A i \in DOMAIN fetched :
          /\ fetched[i].url = remote_providers[i]
          /\ i < Len(fetched) => fetched[i].outcome \in SkippedFailures
    /\ ( /\ fetched # <<>>
         /\ LastFetched.outcome \in SkippedFailures
         /\ Len(fetched) < Len(remote_providers) ) => pc = "loop"
    /\ ( /\ pc = "done"
         /\ fetched # <<>>
         /\ LastFetched.outcome = "valid" )
          => result = _unpack_providers(LastFetched.data, add_mongo_id)

\* the first candidate failed, the second validated with records to return,
\* and the third was never requested
C1_Witness ==
    /\ pc = "done"
    /\ Len(remote_providers) = 3
    /\ Len(fetched) = 2
    /\ fetched[1].outcome = "ConnectionError"
    /\ fetched[2].outcome = "valid"
    /\ result.status = "return"
    /\ result.value # <<>>

\* C2: with no source and every default URL failing with a skipped failure,
\* the call returns the normalized records of the bundled list, when that
\* list is present.
C2_FallsBackToBundled ==
    (AllCandidatesFailed /\ source.kind = "None" /\ bundled.present)
        => /\ result.status = "return"
           /\ result = _unpack_providers(bundled.data, add_mongo_id)

\* C3: with a URL source and every candidate failing with a skipped failure,
\* the call raises the 'Unable to retrieve providers list' RuntimeError
\* naming every URL attempted, and the bundled list is never read.
C3_UrlSourceResolutionError ==
    (AllCandidatesFailed /\ source.kind = "url")
        => /\ result.status = UnableToRetrieve
           /\ \A i \in DOMAIN fetched :
                 \E j \in DOMAIN result.names : result.names[j] = fetched[i].url
           /\ ~bundledRead

\* C4: with a file source no URL is ever fetched; a file that parses and
\* validates gives the call's result, its normalized entries, and a file
\* that does not gives the error the call ends in.
C4_FileSourceOnly ==
    (source.kind = "Path" /\ fileContent.outcome # "unread")
        => /\ fetched = <<>>
           /\ pc = "done" =>
                 result = IF fileContent.outcome = "valid"
                          THEN _unpack_providers(fileContent.data, add_mongo_id)
                          ELSE Raised(fileContent.outcome)

\* C5 as stated: during default or URL-list resolution a candidate whose
\* JSON fails the LinksResponse validation is passed over: the call does not
\* end in the validation error, and a later candidate, if any, is fetched
\* before the call ends.
C5_ValidationErrorSkipped ==
    \A i \in DOMAIN fetched :
        (source.kind # "Path" /\ fetched[i].outcome = "ValidationError")
            => /\ result.status # "ValidationError"
               /\ (pc = "done" /\ i < Len(remote_providers))
                     => Len(fetched) > i

\* C5: a candidate whose JSON fails the LinksResponse validation ends the
\* call: it is the last candidate fetched and the call raises the validation
\* error.
C5_ValidationErrorPropagates ==
    \A i \in DOMAIN fetched :
        fetched[i].outcome = "ValidationError"
            => /\ i = Len(fetched)
               /\ pc = "done"
               /\ result = Raised("ValidationError")

\* default or URL-list resolution ended in the validation error of a
\* candidate that was not the last of the list
C5_Witness ==
    /\ pc = "done"
    /\ source.kind # "Path"
    /\ fetched # <<>>
    /\ LastFetched.outcome = "ValidationError"
    /\ Len(fetched) < Len(remote_providers)
    /\ result.status = "ValidationError"

\* C6: for a URL source the candidate list is [source] when source ends in
\* "/v1/links" or "/links", and [source, source/v1/links, source/links]
\* otherwise.
C6_CandidateList ==
    (source.kind = "url" /\ pc \notin { "idle", "source" })
        => remote_providers =
              IF EndsWith(source.value, "/v1/links")
                    \/ EndsWith(source.value, "/links")
              THEN << source.value >>
              ELSE << source.value, source.value \o "/v1/links",
                      source.value \o "/links" >>

\* C7: every record returned has an id other than "exmpl" and no top-level
\* "attributes" key.
C7_NoExmplNoAttributes ==
    (pc = "done" /\ result.status = "return")
        => \A i \in DOMAIN result.value :
              /\ result.value[i]["id"] # "exmpl"
              /\ "attributes" \notin DOMAIN result.value[i]

(***************************************************************************)
(* Properties of get_child_database_links, checked under SpecChild.        *)
(***************************************************************************)
\* the provider record, as the caller first passed it, has a null or absent
\* base_url
NullBaseUrl(p) ==
    IF p.isResource THEN p.fields.attributes.base_url = None
    ELSE Get(p.fields, "base_url", None) = None

\* C8: for a provider with a null or absent base_url no request is issued
\* and the call raises the 'provides no base URL' RuntimeError.
C8_NoBaseUrlFailsFirst ==
    NullBaseUrl(given)
        => /\ requested = <<>>
           /\ \A i \in DOMAIN outcomes : outcomes[i].status = NoBaseUrl

IsChildWithUrl(link) ==
    LET attributes == Get(link.fields, "attributes", EmptyDict)
    IN  /\ Get(attributes, "link_type", None) = "child"
        /\ Get(attributes, "base_url", None) # None

\* C9: when the endpoint answers 200 with a valid LinksResponse, a call
\* that got as far as the request returns the entries of data that are
\* child links with a base_url, in order, whatever the shape of each entry.
C9_ChildFilter ==
    \A i \in DOMAIN outcomes :
        ( /\ endpoint.status_code = 200
          /\ endpoint.outcome = "valid"
          /\ outcomes[i].status \notin { "KeyError", NoBaseUrl, "MissingSchema" } )
            => outcomes[i] = Returned(SelectSeq(endpoint.data, IsChildWithUrl))

\* C10: two consecutive calls with the same provider record against the
\* unchanged endpoint have the same outcome.
C10_Idempotent ==
    Len(outcomes) >= 2 => outcomes[1] = outcomes[2]

====
